---- MODULE Spec2Model ----
(***************************************************************************)
(* Model of the adaptune settings wizards and of the filter driver.        *)
(*                                                                         *)
(* The main specification, Spec, is PreferenceApp of                        *)
(* src/adaptune/preferences.py: the tree navigator (get_prompt_tokens,     *)
(* select_index), the routing of a resolved value into confdict            *)
(* (_setval_if_key_is_node), the key bindings and the round loop of main.  *)
(*                                                                         *)
(* Three smaller programs have a specification each: SpecConf is          *)
(* ConfigurationApp of src/adaptune/preference.py, SpecDrv is FilterDriver *)
(* of src/src/audapter/driver/filter_driver.py, SpecCfg is the module      *)
(* src/adaptune/config.py with its dump_defaults.                          *)
(*                                                                         *)
(* Python values are tagged records (Str, Num, Flt, PyFalse) so that a     *)
(* label, a number and False stay distinguishable, as they are in the      *)
(* code's comparisons and truth tests.  A dict of the attribute tree is a  *)
(* Branch (ordered keys and children), a JSON list a LeafList.             *)
(***************************************************************************)
EXTENDS Integers, Sequences, FiniteSets, TLC

\* ------------------------------------------------------------------ values

Str(x) == [k |-> "str", s |-> x, i |-> 0]
Num(n) == [k |-> "int", s |-> "", i |-> n]
\* a float literal, held in thousandths (Flt(100) is 0.1)
Flt(m) == [k |-> "float", s |-> "", i |-> m]
PyFalse == [k |-> "bool", s |-> "", i |-> 0]

\* Python's truth test of a value: "", 0, 0.0 and False are falsy
Truthy(v) == IF v.k = "str" THEN v.s # "" ELSE v.i # 0

\* d[k] = v on a Python dict: the key is added when it is missing
DictSet(d, key, v) == [x \in (DOMAIN d) \cup {key} |-> IF x = key THEN v ELSE d[x]]

\* ------------------------------------------------------- the attribute tree

Branch(keys, ch) == [t |-> "dict", keys |-> keys, ch |-> ch, items |-> <<>>]
LeafList(items) == [t |-> "list", keys |-> <<>>, ch |-> <<>>, items |-> items]
DeviceList == [t |-> "devices", keys |-> <<>>, ch |-> <<>>, items |-> <<>>]

\* the keys PreferenceApp treats as device positions
DeviceKeys == {"main", "monitor", "input"}

\* .attributes.json, as loaded by _load_conf: the settings schema
attr_header ==
  Branch(<<"hw_params", "filter_params", "filter_domain", "filter_algo", "devices">>,
    [ hw_params |->
        Branch(<<"rate", "formatname", "periodsize", "channels">>,
          [ rate |-> LeafList(<<Num(44100), Num(48000)>>),
            formatname |->
              Branch(<<"alsa", "sounddevice">>,
                [ alsa |-> LeafList(<<Str("PCM_FORMAT_S16_LE")>>),
                  sounddevice |-> LeafList(<<Str("int16")>>) ]),
            periodsize |-> LeafList(<<Num(256), Num(512)>>),
            channels |-> LeafList(<<Num(1), Num(2)>>) ]),
      filter_params |->
        Branch(<<"mu", "w">>,
          [ mu |-> LeafList(<<Flt(0), Flt(100)>>),
            w |-> LeafList(<<Str("random"), Str("zeros")>>) ]),
      filter_domain |-> LeafList(<<Str("time"), Str("freq")>>),
      filter_algo |-> LeafList(<<Str("FilterLMS"), Str("FilterNLMS")>>),
      devices |->
        Branch(<<"main", "monitor", "input">>,
          [ main |-> DeviceList, monitor |-> DeviceList, input |-> DeviceList ]) ])

\* list(config.keys()) of a dict node, as a list of labels
KeyList(node) == [n \in 1..Len(node.keys) |-> Str(node.keys[n])]

\* the root choice list _load_conf returns beside attr_header
root == KeyList(attr_header)

\* config.json, as loaded by get_config: the configuration before the wizard
DefaultConf ==
  [ hw_params |-> [ rate |-> Num(8000), formatname |-> Str("PCM_FORMAT_S8"),
                    periodsize |-> Num(128), channels |-> Num(4) ],
    filter_params |-> [ mu |-> Flt(10), w |-> Str("unit") ],
    filter_domain |-> Str("none"),
    filter_algo |-> Str("FilterRLS"),
    devices |-> [ main |-> Str("default"), monitor |-> Str("default"),
                  input |-> Str("default") ] ]

\* what sd.query_devices() may return: the names of the devices, in order
Inventories ==
  { <<>>,
    << [name |-> Str("hw:0"), index |-> 0], [name |-> Str("hw:1"), index |-> 1] >> }

\* [devinfo["name"] for devinfo in snddevs]
DeviceNames(snddevs) == [n \in 1..Len(snddevs) |-> snddevs[n].name]

\* ------------------------------------------------------------------- bounds

\* wizard rounds main runs on one app instance
MaxRounds == 2

\* --------------------------------------------------------------------- state

VARIABLES
  confdict,          \* self.confdict
  attributes,        \* self.attributes
  nodes,             \* self.nodes
  control,           \* self.control: [nodes, selected_index, answered]
  current_node,      \* self.current_node
  breadcrumb,        \* self.breadcrumb, as the list of the str(selected) it joins
  want_to_continue,  \* self.want_to_continue
  want_to_write,     \* main's want_to_write: the answer to this round's write prompt
  all_done,          \* self.all_done
  pc,                \* where main is: "run", "ask_write", "ask_continue", "done", "crashed"
  stored,            \* the content of config.json on disk
  round,             \* number of the current round (1 is the first)
  path,              \* history: what was selected in this round, in order
  conf0,             \* history: confdict when this round started
  outcome,           \* history: how this round ended
  resolved,          \* history: the (leaf-key, value) pairs resolved so far, in order
  queries,           \* history: the inventories sd.query_devices() answered, in order
  capp,              \* the ConfigurationApp of preference.py, a record of its fields
  drv,               \* filter_driver.py: the settings and the FilterDriver made from them
  cfg                \* config.py: the module's globals and the calls of dump_defaults

vars == << confdict, attributes, nodes, control, current_node, breadcrumb,
           want_to_continue, want_to_write, all_done, pc, stored, round, path, conf0,
           outcome,
           resolved, queries, capp, drv, cfg >>

\* the part of the state that is no field of the app
hist == << path, conf0, outcome, resolved >>

\* the state of the other programs, which PreferenceApp never touches
others == << capp, drv, cfg >>

\* ------------------------------------------------------------ InquirerControl

\* InquirerControl(nodes): a fresh control, cursor on the first choice
InquirerControl(ns) == [nodes |-> ns, selected_index |-> 0, answered |-> FALSE]

choice_count(c) == Len(c.nodes)

\* self.nodes[self.selected_index], the index counted from 0
get_selection(c) == c.nodes[c.selected_index + 1]

\* --------------------------------------------------------------- PreferenceApp

\* the fields of the app the methods below read and write
Self == [ confdict |-> confdict, attributes |-> attributes, nodes |-> nodes,
          control |-> control, current_node |-> current_node,
          breadcrumb |-> breadcrumb, all_done |-> all_done, pc |-> pc,
          queries |-> queries ]

\* `v in [..]` for a list of string literals: only a str can be equal to one
InStrs(v, S) == v.k = "str" /\ v.s \in S

\* set_header without the fresh control: the control of the last round stays
set_header_keeps_control(self) ==
  [self EXCEPT !.attributes = attr_header,
               !.nodes = root]

set_header(self) ==
  [self EXCEPT !.attributes = attr_header,
               !.nodes = root,
               !.control = InquirerControl(root)]

\* set_header is all of _initialize that touches the fields above
_initialize(self) == set_header(self)

\* attrs[key] raises KeyError when the dict has no such key
set_child_control(self, key, attrs) ==
  IF attrs.t = "dict" /\ ~(key.k = "str" /\ key.s \in DOMAIN attrs.ch)
  THEN [self EXCEPT !.pc = "crashed"]
  ELSE
  LET s1 == IF attrs.t = "dict"
            THEN LET attr_child == attrs.ch[key.s]
                 IN  IF attr_child.t = "dict"
                     THEN [self EXCEPT !.attributes = attr_child,
                                       !.nodes = KeyList(attr_child)]
                     ELSE IF attr_child.t = "list"
                     THEN [self EXCEPT !.attributes = LeafList(<<>>),
                                       !.nodes = attr_child.items]
                     ELSE self
            ELSE self
  IN  [s1 EXCEPT !.control = InquirerControl(s1.nodes)]

\* _work_before_node with the control of a device key built from the nodes
\* the app held before the inventory was asked
_work_before_node_stale_control(self, key, attr, snddevs) ==
  IF attr.t = "dict"
  THEN IF InStrs(key, DeviceKeys)
       THEN [ self |-> [self EXCEPT !.current_node = key,
                                    !.attributes = LeafList(<<>>),
                                    !.nodes = DeviceNames(snddevs),
                                    !.control = InquirerControl(self.nodes),
                                    !.queries = Append(@, snddevs)],
              result |-> PyFalse ]
       ELSE [ self |-> set_child_control(self, key, attr), result |-> PyFalse ]
  ELSE IF attr.t = "list"
  THEN [ self |-> [self EXCEPT
                     !.current_node = IF InStrs(self.current_node, DeviceKeys)
                                      THEN self.current_node ELSE key,
                     !.attributes = LeafList(<<>>)],
         result |-> key ]
  ELSE [ self |-> self, result |-> PyFalse ]

\* snddevs is what sd.query_devices() answers when this call asks it. The
\* same step asks once more to fill the window shown beside the choices; that
\* text is no part of the state.
_work_before_node(self, key, attr, snddevs) ==
  IF attr.t = "dict"
  THEN IF InStrs(key, DeviceKeys)
       THEN LET devlist == DeviceNames(snddevs)
            IN  [ self |-> [self EXCEPT !.current_node = key,
                                        !.attributes = LeafList(<<>>),
                                        !.nodes = devlist,
                                        !.control = InquirerControl(devlist),
                                        !.queries = Append(@, snddevs)],
                  result |-> PyFalse ]
       ELSE [ self |-> set_child_control(self, key, attr), result |-> PyFalse ]
  ELSE IF attr.t = "list"
  THEN [ self |-> [self EXCEPT
                     !.current_node = IF InStrs(self.current_node, DeviceKeys)
                                      THEN self.current_node ELSE key,
                     !.attributes = LeafList(<<>>)],
         result |-> key ]
  ELSE [ self |-> self, result |-> PyFalse ]

\* the key lists of the if/elif chain of _setval_if_key_is_node, in its order
RuleKeys ==
  << {"rate", "periodsize", "channels"},
     {"alsa", "sounddevice"},
     {"w"},
     {"filter_domain", "filter_algo"},
     {"main", "monitor", "input"} >>

\* the chain with the devices rule writing devices.main whatever the key
route_devices_to_main(conf, key_prev, selected) ==
  IF InStrs(key_prev, RuleKeys[1])
  THEN DictSet(conf, "hw_params", DictSet(conf["hw_params"], key_prev.s, selected))
  ELSE IF InStrs(key_prev, RuleKeys[2])
  THEN DictSet(conf, "hw_params", DictSet(conf["hw_params"], "formatname", selected))
  ELSE IF InStrs(key_prev, RuleKeys[3])
  THEN DictSet(conf, "filter_params", DictSet(conf["filter_params"], key_prev.s, selected))
  ELSE IF InStrs(key_prev, RuleKeys[4])
  THEN DictSet(conf, key_prev.s, selected)
  ELSE IF InStrs(key_prev, RuleKeys[5])
  THEN DictSet(conf, "devices", DictSet(conf["devices"], "main", selected))
  ELSE conf

\* the if/elif chain of _setval_if_key_is_node: confdict after it
route(conf, key_prev, selected) ==
  IF InStrs(key_prev, RuleKeys[1])
  THEN DictSet(conf, "hw_params", DictSet(conf["hw_params"], key_prev.s, selected))
  ELSE IF InStrs(key_prev, RuleKeys[2])
  THEN DictSet(conf, "hw_params", DictSet(conf["hw_params"], "formatname", selected))
  ELSE IF InStrs(key_prev, RuleKeys[3])
  THEN DictSet(conf, "filter_params", DictSet(conf["filter_params"], key_prev.s, selected))
  ELSE IF InStrs(key_prev, RuleKeys[4])
  THEN DictSet(conf, key_prev.s, selected)
  ELSE IF InStrs(key_prev, RuleKeys[5])
  THEN DictSet(conf, "devices", DictSet(conf["devices"], key_prev.s, selected))
  ELSE conf

\* exit(None) ends run(): main goes on to its write prompt
_setval_if_key_is_node(self, key_prev, selected) ==
  [self EXCEPT !.confdict = route(self.confdict, key_prev, selected),
               !.control = [self.control EXCEPT !.answered = FALSE],
               !.all_done = TRUE,
               !.pc = "ask_write"]

\* select_index with the value written at every step instead of at the leaf:
\* a step that descends routes the selected label as well
select_index_writes_on_descent(self, key, attrs, snddevs) ==
  LET r == _work_before_node(self, key, attrs, snddevs)
  IN  IF Truthy(r.result)
      THEN _setval_if_key_is_node(r.self, r.self.current_node, r.result)
      ELSE [r.self EXCEPT !.confdict = route(@, key, key)]

select_index(self, key, attrs, snddevs) ==
  LET r == _work_before_node(self, key, attrs, snddevs)
  IN  IF Truthy(r.result)
      THEN _setval_if_key_is_node(r.self, r.self.current_node, r.result)
      ELSE r.self

\* the breadcrumb string gains " >" (when not empty) and " " + str(selected):
\* kept as the list of the selected values
get_prompt_tokens(self, snddevs) ==
  LET selected == IF self.control.answered THEN get_selection(self.control) ELSE PyFalse
  IN  IF Truthy(selected)
      THEN LET s1 == [self EXCEPT !.breadcrumb = Append(self.breadcrumb, selected)]
           IN  select_index(s1, selected, s1.attributes, snddevs)
      ELSE self

\* save_conf with the configuration as it was loaded written back
save_conf_of_loaded(self) == DefaultConf

\* save_conf(): what config.json holds after commentjson.dump(self.confdict)
save_conf(self) == self.confdict

\* ------------------------------------------- ConfigurationApp (preference.py)

\* an attribute that was never assigned: reading it raises AttributeError
Unset == [k |-> "unset", s |-> "", i |-> 0]

\* InquirerControl(choices) of preference.py
ConfInquirerControl(choices) ==
  [choices |-> choices, selected_option_index |-> 0, answered |-> FALSE]

\* ConfigurationApp(): the fields after __init__. The controls are objects:
\* objs holds them, ic and ic_init are references into objs, and after
\* __init__ both name the same control. current_choice is assigned nowhere.
\* last and calls are history: the last call of select_item or _pref_conf
\* with its arguments, and the number of calls of _pref_conf made alone.
ConfigurationApp ==
  [ confdict |-> DefaultConf,
    attributes |-> attr_header,
    choices_init |-> root,
    choices |-> root,
    objs |-> << ConfInquirerControl(root) >>,
    ic_init |-> 1,
    ic |-> 1,
    current_choice |-> Unset,
    want_to_continue |-> FALSE,
    finished |-> FALSE,
    breadcrumb |-> <<>>,
    pc |-> "run",
    last |-> [op |-> "none", choice |-> Unset, key |-> Unset,
              before |-> DefaultConf, attributes |-> attr_header],
    calls |-> 0 ]

\* guess(): answer is what the yes/no dialog returns
guess(self, answer) ==
  IF answer
  THEN [self EXCEPT !.want_to_continue = TRUE, !.ic = self.ic_init]
  ELSE [self EXCEPT !.want_to_continue = FALSE, !.finished = TRUE]

\* self.confdict[section][name] = key, then guess()
pref_write(self, section, name, key, answer) ==
  guess([self EXCEPT !.confdict =
           DictSet(@, section, DictSet(@[section], name, key))], answer)

\* _pref_conf(choice, key): the if/elif chain in its order. `x == "a" or "b"`
\* is (x == "a") or "b", and a non-empty string is true. res is what the
\* function returns: None after a write, False from the final else.
_pref_conf(self, choice, key, answer) ==
  IF InStrs(choice, {"rate"})
  THEN [self |-> pref_write(self, "hw_params", "rate", key, answer), res |-> "None"]
  ELSE IF InStrs(choice, {"alsa"}) \/ Truthy(Str("sounddevice"))
  THEN [self |-> pref_write(self, "hw_params", "fomatname", key, answer), res |-> "None"]
  ELSE IF InStrs(choice, {"periodsize"})
  THEN [self |-> pref_write(self, "hw_params", "periodsize", key, answer), res |-> "None"]
  ELSE IF InStrs(choice, {"channels"})
  THEN [self |-> pref_write(self, "hw_params", "channels", key, answer), res |-> "None"]
  ELSE IF InStrs(choice, {"mu"})
  THEN [self |-> pref_write(self, "filter_params", "mu", key, answer), res |-> "None"]
  ELSE IF InStrs(choice, {"w"})
  THEN [self |-> pref_write(self, "filter_params", "w", key, answer), res |-> "None"]
  ELSE IF InStrs(choice, {"filter_domain"})
  THEN [self |-> guess([self EXCEPT !.confdict = DictSet(@, "filter_domain", key)], answer),
        res |-> "None"]
  ELSE IF InStrs(choice, {"filter_algo"})
  THEN [self |-> guess([self EXCEPT !.confdict = DictSet(@, "filter_algo", key)], answer),
        res |-> "None"]
  ELSE IF InStrs(choice, {"main"}) \/ Truthy(Str("monitor")) \/ Truthy(Str("input"))
  THEN [self |-> pref_write(self, "devices", choice.s, key, answer), res |-> "None"]
  ELSE [self |-> self, res |-> "False"]

\* get_ic_child(key, attributes): the control of the child, a new object.
\* attributes[key] raises when attributes is no dict or lacks the key.
get_ic_child(self, key, attrs) ==
  IF attrs.t = "dict" /\ key.k = "str" /\ key.s \in DOMAIN attrs.ch
  THEN LET attr_child == attrs.ch[key.s]
           s1 == IF attr_child.t = "dict"
                 THEN [self EXCEPT !.attributes = attr_child,
                                   !.choices = KeyList(attr_child)]
                 ELSE IF attr_child.t = "list"
                 THEN [self EXCEPT !.attributes = LeafList(<<>>),
                                   !.choices = attr_child.items]
                 ELSE self
       IN  [s1 EXCEPT !.objs = Append(@, ConfInquirerControl(s1.choices)),
                      !.ic = Len(self.objs) + 1]
  ELSE [self EXCEPT !.pc = "crashed"]

\* select_item(key, attributes)
select_item(self, key, attrs, answer) ==
  LET s0 == [self EXCEPT !.last = [op |-> "select_item",
                                   choice |-> self.current_choice, key |-> key,
                                   before |-> self.confdict, attributes |-> attrs]]
  IN  IF s0.current_choice = Unset
      THEN [s0 EXCEPT !.pc = "crashed"]
      ELSE LET r == _pref_conf(s0, s0.current_choice, key, answer)
           IN  IF r.res = "False"
               THEN LET s1 == get_ic_child(r.self, key, attrs)
                    IN  IF s1.pc = "crashed" THEN s1
                        ELSE [s1 EXCEPT !.current_choice = key]
               ELSE r.self

\* get_prompt_tokens of preference.py: the breadcrumb as the list of the
\* str(selected) it joins
conf_get_prompt_tokens(self, answer) ==
  IF self.objs[self.ic].answered
  THEN LET selected == self.objs[self.ic].choices[self.objs[self.ic].selected_option_index + 1]
           s1 == [self EXCEPT !.breadcrumb = Append(self.breadcrumb, selected)]
       IN  select_item(s1, selected, s1.attributes, answer)
  ELSE self

\* ------------------------------------------------ FilterDriver (filter_driver.py)

\* Python's None, and a value that is present
PyNone == <<>>
Some(x) == <<x>>

\* the fields of the FILTER section the constructor reads
FilterFields == {"model", "mu", "w", "lambda_"}

\* the FILTER sections a run may load: each field set or missing
FilterSettings ==
  { [ model |-> IF "model" \in S THEN Some("FilterLMS") ELSE PyNone,
      mu |-> IF "mu" \in S THEN Some(1) ELSE PyNone,
      w |-> IF "w" \in S THEN Some("zeros") ELSE PyNone,
      lambda_ |-> IF "lambda_" \in S THEN Some(1) ELSE PyNone ] : S \in SUBSET FilterFields }

\* hw_params.periodsize of the configuration the engine runs with
PeriodSize == 2

\* weights are kept modulo WeightMod
WeightMod == 3

\* tune calls in a run
MaxTunes == 2

\* settings.get("FILTER.<field>"): the value, or None when it is not set
settings_get(settings, field) == settings[field]

\* FilterModel(model, shape, mu, w, lambda_): the filter keeps what it is
\* given; its coefficient vector w has `shape` entries, zero for "zeros",
\* and is None when no initial weights are named
FilterModel(model, shape, mu, w, lambda_) ==
  [ model |-> model, n |-> shape, mu |-> mu, lambda_ |-> lambda_,
    w |-> IF w = PyNone THEN PyNone ELSE Some([k \in 1..shape |-> 0]) ]

\* the observed samples the filter sees at sample n, newest first
Window(data_in, n, shape) ==
  [k \in 1..shape |-> IF n - k + 1 >= 1 THEN data_in[n - k + 1] ELSE 0]

RECURSIVE Dot(_, _, _)
Dot(w, x, k) == IF k = 0 THEN 0 ELSE w[k] * x[k] + Dot(w, x, k - 1)

\* the adaptation over a block, sample by sample from sample n on: output
\* from the current weights, error = desired - output, weights moved by
\* step size * error * input
RECURSIVE Adapt(_, _, _, _, _)
Adapt(w, mu, desired, data_in, n) ==
  IF n > Len(desired) \/ n > Len(data_in) THEN w
  ELSE LET x == Window(data_in, n, Len(w))
           e == desired[n] - Dot(w, x, Len(w))
       IN  Adapt([k \in 1..Len(w) |-> (w[k] + mu * e * x[k]) % WeightMod],
                 mu, desired, data_in, n + 1)

\* FilterModel.apply(desired, data_in): the filter after the block, and
\* whether the call raised: arithmetic on a parameter that is None raises
\* TypeError and leaves the filter as it was
apply(filter_, desired, data_in) ==
  IF filter_.mu = PyNone \/ filter_.w = PyNone
  THEN [filter_ |-> filter_, error |-> "TypeError"]
  ELSE [filter_ |-> [filter_ EXCEPT
                       !.w = Some(Adapt(filter_.w[1], filter_.mu[1], desired, data_in, 1))],
        error |-> "none"]

\* the module before its import: no settings, no driver. last, tunes and
\* applied are history: the last call with the weights before it and what
\* it returned, the number of tune calls, the number of calls of apply.
DriverModule ==
  [ pc |-> "import",
    settings |-> [f \in FilterFields |-> PyNone],
    engine |-> FALSE,
    shape |-> 0,
    filter_ |-> FilterModel(PyNone, 0, PyNone, PyNone, PyNone),
    error |-> "none",
    last |-> [op |-> "none", n |-> 0, w |-> PyNone, applied |-> 0, returned |-> PyNone],
    tuned |-> PyNone,
    tunes |-> 0,
    applied |-> 0 ]

\* FilterDriver.__init__(shape)
FilterDriver(self, shape) ==
  [self EXCEPT !.engine = TRUE,
               !.shape = shape,
               !.filter_ = FilterModel(settings_get(self.settings, "model"), shape,
                                       settings_get(self.settings, "mu"),
                                       settings_get(self.settings, "w"),
                                       settings_get(self.settings, "lambda_")),
               !.error = "none"]

\* FilterDriver.tune(desired, data_in)
tune(self, desired, data_in) ==
  LET r == apply(self.filter_, desired, data_in)
  IN  [self EXCEPT !.filter_ = r.filter_,
                   !.error = r.error,
                   !.applied = @ + 1]

\* get_filter_weights with the filter made anew before its weights are read
get_filter_weights_of_new_filter(self) ==
  LET s1 == FilterDriver(self, self.shape)
  IN  [self |-> s1, result |-> s1.filter_.w]

\* FilterDriver.get_filter_weights()
get_filter_weights(self) ==
  [self |-> self, result |-> self.filter_.w]

\* ------------------------------------------------------------ config.py

\* params.json, as commentjson loads it: the defaults, led by the description
ParamsJson ==
  [ __description__ |-> Str("defaults"),
    params |-> Str("hw"),
    filter_params |-> Str("filter"),
    filter_domain |-> Str("time"),
    filter_algo |-> Str("FilterNLMS"),
    devices |-> Str("devices") ]

\* calls of dump_defaults in a run
MaxDumpCalls == 4

\* del d[key]
DictDel(d, key) == [x \in (DOMAIN d) \ {key} |-> d[x]]

\* the module before its import. log is history: the calls of dump_defaults
\* with their arguments and what each returned or raised.
ConfigModule ==
  [ pc |-> "import",
    config |-> [x \in {} |-> Str("")],
    printed |-> 0,
    log |-> <<>> ]

\* the module's top-level code: params.json is loaded into config, the
\* description is deleted from it (line 63), and InquirerControl(choices)
\* raises AttributeError, for __init__ reads self._get_choice_tokens while
\* the method is _get_choiced_tokens. The import fails there; config and
\* dump_defaults are as the lines before left them.
config_import(self) ==
  [self EXCEPT !.config = DictDel(ParamsJson, "__description__"),
               !.pc = "AttributeError"]

\* dump_defaults(puts, description): the module after the call, what the
\* call raised, and the dict it returned
dump_defaults(self, puts, description) ==
  IF ~description /\ "__description__" \notin DOMAIN self.config
  THEN [self |-> self, error |-> "KeyError", result |-> self.config]
  ELSE LET s1 == IF ~description
                 THEN [self EXCEPT !.config = DictDel(@, "__description__")]
                 ELSE self
           s2 == IF puts THEN [s1 EXCEPT !.printed = @ + 1] ELSE s1
       IN  [self |-> s2, error |-> "none", result |-> s2.config]

\* --------------------------------------------------------------- history

RECURSIVE Walk(_, _, _)
\* the node of the schema that the labels p[n], p[n+1], ... lead to from `node`
Walk(node, p, n) ==
  IF n > Len(p) THEN node
  ELSE IF node.t = "dict" /\ p[n].k = "str" /\ p[n].s \in DOMAIN node.ch
       THEN Walk(node.ch[p[n].s], p, n + 1)
       ELSE [t |-> "value", keys |-> <<>>, ch |-> <<>>, items |-> <<>>]

NodeAt(p) == Walk(attr_header, p, 1)

\* the round's selections so far end at a parameter: the next one is its value
AtParameter(p) == p # <<>> /\ NodeAt(p).t \in {"list", "devices"}

\* ----------------------------------------------------------------- actions

\* write the fields of `self` back to the app
Assign(self) ==
  /\ confdict' = self.confdict
  /\ attributes' = self.attributes
  /\ nodes' = self.nodes
  /\ control' = self.control
  /\ current_node' = self.current_node
  /\ breadcrumb' = self.breadcrumb
  /\ all_done' = self.all_done
  /\ pc' = self.pc
  /\ queries' = self.queries

app == << confdict, attributes, nodes, control, current_node, breadcrumb, all_done,
         queries >>

\* PreferenceApp(): get_config, then _initialize; main enters its first run().
\* The other programs: ConfigurationApp as constructed, the two modules before
\* their import.
Init ==
  /\ confdict = DefaultConf
  /\ attributes = attr_header
  /\ nodes = root
  /\ control = InquirerControl(root)
  /\ current_node = Str("")
  /\ breadcrumb = <<>>
  /\ want_to_continue = TRUE
  /\ want_to_write = FALSE
  /\ all_done = FALSE
  /\ pc = "run"
  /\ stored = DefaultConf
  /\ round = 1
  /\ path = <<>>
  /\ conf0 = DefaultConf
  /\ outcome = "none"
  /\ resolved = <<>>
  /\ queries = <<>>
  /\ capp = ConfigurationApp
  /\ drv = DriverModule
  /\ cfg = ConfigModule

\* an exception leaves run() and main: the process ends
Crash ==
  /\ pc' = "crashed"
  /\ outcome' = "crashed"
  /\ UNCHANGED << app, want_to_continue, want_to_write, stored, round, path, conf0,
                  resolved, others >>

\* "down": the modulo raises ZeroDivisionError when no choice is presented
move_cursor_down ==
  /\ pc = "run"
  /\ IF choice_count(control) = 0
     THEN Crash
     ELSE /\ control' = [control EXCEPT
                 !.selected_index = (control.selected_index + 1) % choice_count(control)]
          /\ UNCHANGED << confdict, attributes, nodes, current_node, breadcrumb,
                          want_to_continue, want_to_write, all_done, pc, stored, round, hist,
                          queries,
                          others >>

\* "up"
move_cursor_up ==
  /\ pc = "run"
  /\ IF choice_count(control) = 0
     THEN Crash
     ELSE /\ control' = [control EXCEPT
                 !.selected_index = (control.selected_index - 1) % choice_count(control)]
          /\ UNCHANGED << confdict, attributes, nodes, current_node, breadcrumb,
                          want_to_continue, want_to_write, all_done, pc, stored, round, hist,
                          queries,
                          others >>

\* "enter"
set_value ==
  /\ pc = "run"
  /\ control' = [control EXCEPT !.answered = TRUE]
  /\ UNCHANGED << confdict, attributes, nodes, current_node, breadcrumb,
                  want_to_continue, want_to_write, all_done, pc, stored, round, hist,
                          queries,
                          others >>

\* "c-c" / "c-q": exit(None) ends run()
_interrupt ==
  /\ pc = "run"
  /\ pc' = "ask_write"
  /\ outcome' = "interrupted"
  /\ UNCHANGED << app, want_to_continue, want_to_write, stored, round, path, conf0,
                  resolved, others >>

\* a render of the prompt line: get_prompt_tokens with all it calls. With
\* answered set on a control of no choices, get_selection raises IndexError.
Render ==
  /\ pc = "run"
  /\ IF control.answered /\ choice_count(control) = 0
     THEN Crash
     ELSE \E snddevs \in Inventories :
            LET selected == IF control.answered THEN get_selection(control) ELSE PyFalse
                taken == Truthy(selected)
                value == taken /\ AtParameter(path)
                after == get_prompt_tokens(Self, snddevs)
            IN  /\ Assign(after)
                /\ path' = IF taken THEN Append(path, selected) ELSE path
                /\ outcome' = IF after.pc = "crashed" THEN "crashed"
                              ELSE IF value THEN "resolved" ELSE outcome
                /\ resolved' = IF value
                               THEN Append(resolved, [key |-> path[Len(path)],
                                                      value |-> selected])
                               ELSE resolved
                /\ UNCHANGED << want_to_continue, want_to_write, stored, round, conf0,
                                others >>

\* a render of the choice window: _get_choiced_tokens pops from an empty
\* token list when the control has no choices (IndexError)
_get_choiced_tokens ==
  /\ pc = "run"
  /\ IF choice_count(control) = 0 THEN Crash ELSE UNCHANGED vars

\* main, after run(): the write prompt and save_conf
main_write ==
  /\ pc = "ask_write"
  /\ \E answer \in BOOLEAN :
       /\ want_to_write' = answer
       /\ stored' = IF answer THEN save_conf(Self) ELSE stored
  /\ pc' = "ask_continue"
  /\ UNCHANGED << app, want_to_continue, round, hist, others >>

\* main: the continue prompt; on yes _initialize and the next run(). The
\* answer to the write prompt is read no more: the next round starts with
\* want_to_write as it is before the first prompt.
main_continue ==
  /\ pc = "ask_continue"
  /\ \E answer \in BOOLEAN :
       /\ answer => round < MaxRounds
       /\ want_to_continue' = answer
       /\ IF answer
          THEN /\ Assign([_initialize(Self) EXCEPT !.pc = "run"])
               /\ round' = round + 1
               /\ path' = <<>>
               /\ conf0' = confdict
               /\ outcome' = "none"
               /\ want_to_write' = FALSE
               /\ UNCHANGED << stored, resolved, others >>
          ELSE /\ pc' = "done"
               /\ UNCHANGED << app, want_to_write, stored, round, hist, others >>

Next ==
  \/ move_cursor_down
  \/ move_cursor_up
  \/ set_value
  \/ _interrupt
  \/ Render
  \/ _get_choiced_tokens
  \/ main_write
  \/ main_continue

Spec == Init /\ [][Next]_vars

\* ------------------------------------------- _setval_if_key_is_node, called alone

\* calls of _setval_if_key_is_node in a run of SpecRoute
MaxCalls == 2

\* the values a call is given as `selected`
RouteValues == { Num(48000), Flt(500), Str("hw:1") }

\* the keys a call is given as key_prev: the leaf-keys of the settings schema
RouteKeys ==
  { "rate", "periodsize", "channels", "alsa", "sounddevice", "mu", "w",
    "filter_domain", "filter_algo", "main", "monitor", "input" }

\* one call _setval_if_key_is_node(key_prev, selected) on the constructed app
call_setval_if_key_is_node ==
  /\ Len(resolved) < MaxCalls
  /\ \E K \in RouteKeys, v \in RouteValues :
       /\ Assign(_setval_if_key_is_node(Self, Str(K), v))
       /\ resolved' = Append(resolved, [key |-> Str(K), value |-> v])
       /\ conf0' = confdict
       /\ outcome' = "resolved"
       /\ UNCHANGED << want_to_continue, want_to_write, stored, round, path, others >>

SpecRoute == Init /\ [][call_setval_if_key_is_node]_vars

\* ------------------------------------------- ConfigurationApp: actions

\* all that belongs to PreferenceApp and its main
pref_vars == << app, want_to_continue, want_to_write, pc, stored, round, hist >>

\* calls of _pref_conf made alone in a run of SpecConf
MaxPrefCalls == 2

\* the choices a call of _pref_conf is given: the leaf-keys of the schema, a
\* Branch label and the empty string
ConfChoices ==
  { "rate", "periodsize", "channels", "alsa", "sounddevice", "mu", "w",
    "filter_domain", "filter_algo", "main", "monitor", "input", "hw_params", "" }

\* the values a call of _pref_conf is given as key
ConfValues == { Num(48000), Str("hw:1") }

\* "down" of preference.py
conf_move_cursor_down ==
  /\ capp.pc = "run"
  /\ capp' = [capp EXCEPT !.objs[capp.ic].selected_option_index =
                 (@ + 1) % Len(capp.objs[capp.ic].choices)]
  /\ UNCHANGED << pref_vars, drv, cfg >>

\* "up" of preference.py
conf_move_cursor_up ==
  /\ capp.pc = "run"
  /\ capp' = [capp EXCEPT !.objs[capp.ic].selected_option_index =
                 (@ - 1) % Len(capp.objs[capp.ic].choices)]
  /\ UNCHANGED << pref_vars, drv, cfg >>

\* "enter" of preference.py: answered, then exit or _set_layout, which
\* calls get_prompt_tokens and through it select_item
conf_set_value ==
  /\ capp.pc = "run"
  /\ LET s1 == [capp EXCEPT !.objs[capp.ic].answered = TRUE]
     IN  IF ~s1.want_to_continue /\ s1.finished
         THEN capp' = [s1 EXCEPT !.pc = "done"]
         ELSE \E answer \in BOOLEAN : capp' = conf_get_prompt_tokens(s1, answer)
  /\ UNCHANGED << pref_vars, drv, cfg >>

\* "c-c" / "c-q" of preference.py
conf_interrupt ==
  /\ capp.pc = "run"
  /\ capp' = [capp EXCEPT !.pc = "done"]
  /\ UNCHANGED << pref_vars, drv, cfg >>

\* one call _pref_conf(choice, key) on the app
call_pref_conf ==
  /\ capp.pc = "run"
  /\ capp.calls < MaxPrefCalls
  /\ \E K \in ConfChoices, v \in ConfValues, answer \in BOOLEAN :
       capp' = [_pref_conf(capp, Str(K), v, answer).self EXCEPT
                  !.last = [op |-> "_pref_conf", choice |-> Str(K), key |-> v,
                            before |-> capp.confdict, attributes |-> capp.attributes],
                  !.calls = @ + 1]
  /\ UNCHANGED << pref_vars, drv, cfg >>

NextConf ==
  \/ conf_move_cursor_down
  \/ conf_move_cursor_up
  \/ conf_set_value
  \/ conf_interrupt
  \/ call_pref_conf

SpecConf == Init /\ [][NextConf]_vars

\* ------------------------------------------------ FilterDriver: actions

\* the shapes a driver is constructed with
Shapes == {1, 2}

\* the sample blocks of at most PeriodSize samples, each sample 0 or 1
Blocks == UNION { [1..n -> {0, 1}] : n \in 1..PeriodSize }

\* import of the module: helper.load_config provides settings
load_config ==
  /\ drv.pc = "import"
  /\ \E s \in FilterSettings : drv' = [drv EXCEPT !.pc = "loaded", !.settings = s]
  /\ UNCHANGED << pref_vars, capp, cfg >>

\* FilterDriver(shape)
call_FilterDriver ==
  /\ drv.pc = "loaded"
  /\ ~drv.engine
  /\ \E shape \in Shapes :
       LET s1 == FilterDriver(drv, shape)
       IN  drv' = [s1 EXCEPT !.last = [op |-> "FilterDriver", n |-> 0, w |-> drv.filter_.w,
                                       applied |-> drv.applied, returned |-> PyNone],
                             !.tuned = s1.filter_.w]
  /\ UNCHANGED << pref_vars, capp, cfg >>

\* driver.tune(desired, data_in), both blocks of the same length
call_tune ==
  /\ drv.engine
  /\ drv.tunes < MaxTunes
  /\ \E desired \in Blocks, data_in \in Blocks :
       /\ Len(desired) = Len(data_in)
       /\ LET s1 == tune(drv, desired, data_in)
          IN  drv' = [s1 EXCEPT !.last = [op |-> "tune", n |-> Len(desired),
                                          w |-> drv.filter_.w, applied |-> drv.applied,
                                          returned |-> PyNone],
                                !.tuned = s1.filter_.w,
                                !.tunes = @ + 1]
  /\ UNCHANGED << pref_vars, capp, cfg >>

\* driver.get_filter_weights()
call_get_filter_weights ==
  /\ drv.engine
  /\ LET r == get_filter_weights(drv)
     IN  drv' = [r.self EXCEPT !.last = [op |-> "get_filter_weights", n |-> 0,
                                         w |-> drv.filter_.w, applied |-> drv.applied,
                                         returned |-> r.result]]
  /\ UNCHANGED << pref_vars, capp, cfg >>

NextDrv ==
  \/ load_config
  \/ call_FilterDriver
  \/ call_tune
  \/ call_get_filter_weights

SpecDrv == Init /\ [][NextDrv]_vars

\* ------------------------------------------------------- config.py: actions

\* import adaptune.config (or running it as a script)
import_config ==
  /\ cfg.pc = "import"
  /\ cfg' = config_import(cfg)
  /\ UNCHANGED << pref_vars, capp, drv >>

\* one call of dump_defaults on what the import left of the module
call_dump_defaults ==
  /\ cfg.pc # "import"
  /\ Len(cfg.log) < MaxDumpCalls
  /\ \E puts \in BOOLEAN, description \in BOOLEAN :
       LET r == dump_defaults(cfg, puts, description)
       IN  cfg' = [r.self EXCEPT !.log = Append(@, [puts |-> puts,
                                                    description |-> description,
                                                    error |-> r.error,
                                                    result |-> r.result])]
  /\ UNCHANGED << pref_vars, capp, drv >>

NextCfg ==
  \/ import_config
  \/ call_dump_defaults

SpecCfg == Init /\ [][NextCfg]_vars

\* ------------------------------------------------------- the claims' vocabulary

\* the latest resolved (leaf-key, value) pair
Last == resolved[Len(resolved)]

\* a round has resolved a value and run() has returned
RoundResolved == pc # "run" /\ pc # "crashed" /\ outcome = "resolved"

HwKeys == {"rate", "periodsize", "channels"}
FormatKeys == {"alsa", "sounddevice"}
TopKeys == {"filter_domain", "filter_algo"}
NonDeviceParams == HwKeys \cup {"w"} \cup TopKeys
LeafKeys == HwKeys \cup FormatKeys \cup {"mu", "w"} \cup TopKeys \cup DeviceKeys

\* the field of the configuration a leaf-key is to be written to, as a path
DestPath(K) ==
  IF K \in HwKeys THEN <<"hw_params", K>>
  ELSE IF K \in FormatKeys THEN <<"hw_params", "formatname">>
  ELSE IF K \in {"mu", "w"} THEN <<"filter_params", K>>
  ELSE IF K \in DeviceKeys THEN <<"devices", K>>
  ELSE <<K>>

\* the fields of the configuration
Fields == { DestPath(K) : K \in LeafKeys }

Has(conf, f) ==
  /\ f[1] \in DOMAIN conf
  /\ Len(f) = 2 => f[2] \in DOMAIN conf[f[1]]

Get(conf, f) == IF Len(f) = 1 THEN conf[f[1]] ELSE conf[f[1]][f[2]]

\* the fields in which two configurations differ
Changed(c0, c1) ==
  { f \in Fields : ~(Has(c0, f) /\ Has(c1, f) /\ Get(c0, f) = Get(c1, f)) }

\* the leaf-keys resolved so far, and the values resolved for one of them, in order
ValuesOf(K) ==
  LET idx == { n \in 1..Len(resolved) : resolved[n].key = Str(K) }
      RECURSIVE Take(_)
      Take(n) == IF n > Len(resolved) THEN <<>>
                 ELSE IF n \in idx THEN <<resolved[n].value>> \o Take(n + 1)
                 ELSE Take(n + 1)
  IN  Take(1)

\* --------------------------------------------------------------------- claims

\* C1: a round that resolves a value v under a non-device parameter P (rate,
\* periodsize, channels, w, filter_domain, filter_algo) ends with confdict
\* holding v at P's destination.
C1_ValueStoredAtDestination ==
  (RoundResolved /\ Last.key.s \in NonDeviceParams)
    => ( /\ Has(confdict, DestPath(Last.key.s))
         /\ Get(confdict, DestPath(Last.key.s)) = Last.value )

\* C2: a round that selects a device key K and then a device name d ends with
\* confdict.devices[K] = d and every other devices entry as the round found it.
C2_DeviceRouted ==
  (RoundResolved /\ Last.key.s \in DeviceKeys)
    => ( /\ confdict["devices"][Last.key.s] = Last.value
         /\ \A K \in DeviceKeys \ {Last.key.s} :
              confdict["devices"][K] = conf0["devices"][K]
         /\ DOMAIN confdict["devices"] = DOMAIN conf0["devices"] )

C2_Witness ==
  /\ pc = "ask_write"
  /\ outcome = "resolved"
  /\ round = 2
  /\ Last = [key |-> Str("monitor"), value |-> Str("hw:1")]
  /\ confdict["devices"]["monitor"] = Str("hw:1")
  /\ conf0["devices"]["main"] = Str("hw:0")

\* C3: a round that resolves a value changes exactly one field of confdict,
\* the destination of the resolved leaf-key.
C3_ExactlyOneFieldChanged ==
  RoundResolved => Changed(conf0, confdict) = { DestPath(Last.key.s) }

\* a key the if/elif chain of _setval_if_key_is_node has a rule for
Routable(key) == route(DefaultConf, key, Str("?")) # DefaultConf

\* C4: a round that resolves a value under a leaf-key with no routing rule
\* does not end as a normal, completed round with confdict left as it was.
C4_UnroutableKeyReported ==
  ~( /\ RoundResolved
     /\ ~Routable(Last.key)
     /\ confdict = conf0 )

\* C6: when a leaf-key K was resolved at least twice, the last two times with
\* different values, confdict holds the last of them at K's destination
\* when the round ends.
C6_LastWriteWins ==
  pc = "ask_write" =>
    \A K \in LeafKeys :
      LET vs == ValuesOf(K)
      IN  (Len(vs) >= 2 /\ vs[Len(vs)] # vs[Len(vs) - 1])
            => Get(confdict, DestPath(K)) = vs[Len(vs)]

\* C7: when a value is resolved the breadcrumb is exactly the Branch labels
\* chosen in this round, in order: the round's selections but the value.
C7_BreadcrumbIsBranchLabels ==
  (pc = "ask_write" /\ outcome = "resolved")
    => breadcrumb = SubSeq(path, 1, Len(path) - 1)

\* C8: while the navigator is at the tree root of a round (nothing selected
\* yet in it), the breadcrumb is empty.
C8_BreadcrumbEmptyAtRoot ==
  (pc = "run" /\ path = <<>>) => breadcrumb = <<>>

\* C9: when the user continues after a round that resolved a value, the
\* navigator is back at the tree root as the next run() starts: attributes is
\* attr_header, nodes is the root choice list, the control is fresh.
C9_ResetToRootOnContinue ==
  [][ (pc = "ask_continue" /\ outcome = "resolved" /\ pc' = "run")
        => ( /\ attributes' = attr_header
             /\ nodes' = root
             /\ control' = [nodes |-> root, selected_index |-> 0, answered |-> FALSE] )
    ]_vars

C9_Witness ==
  /\ round = 2
  /\ pc = "run"
  /\ path = <<>>
  /\ Len(resolved) = 1
  /\ attributes = attr_header
  /\ control = [nodes |-> root, selected_index |-> 0, answered |-> FALSE]

\* C10: the cursor index is always within the presented choices.
C10_CursorInRange ==
  /\ 0 <= control.selected_index
  /\ control.selected_index < choice_count(control)

\* the rules of the chain whose condition holds of key_prev
Matching(key_prev) == { n \in DOMAIN RuleKeys : InStrs(key_prev, RuleKeys[n]) }

\* C5: _setval_if_key_is_node called with a leaf-key of the schema as
\* key_prev has exactly one matching rule and writes the selected value to
\* that key's destination, and to it alone (under SpecRoute).
C5_RoutingTotal ==
  resolved # <<>> =>
    /\ Cardinality(Matching(Last.key)) = 1
    /\ Has(confdict, DestPath(Last.key.s))
    /\ Get(confdict, DestPath(Last.key.s)) = Last.value
    /\ Changed(conf0, confdict) \subseteq { DestPath(Last.key.s) }


\* C11: the navigator never presents zero choices with Enter processed on
\* them, and an empty choice set never ends the process: it aborts the round
\* only, the next round can start from the root.
C11_EmptyChoiceSetReported ==
  /\ ~(choice_count(control) = 0 /\ control.answered)
  /\ pc # "crashed"

\* C19: a value selected from a non-device parameter's value list is never
\* written to confdict.devices, whatever earlier rounds resolved: when a
\* round resolves at a non-device parameter, devices is as at round start.
C19_NonDeviceValueNeverInDevices ==
  (RoundResolved /\ Last.key.s \notin DeviceKeys)
     => confdict["devices"] = conf0["devices"]

\* C20: a round ended by interrupt (Ctrl-C / Ctrl-Q), at whatever depth of the
\* navigation, leaves confdict exactly as it was when the round started.
C20_InterruptLeavesConfdict ==
  (outcome = "interrupted") => confdict = conf0

\* a round interrupted two levels deep, after an earlier round wrote a device
C20_Witness ==
  /\ outcome = "interrupted"
  /\ pc = "ask_write"
  /\ round = 2
  /\ Len(path) = 2
  /\ confdict # DefaultConf
  /\ confdict = conf0

SetAt(conf, f, v) ==
  IF Len(f) = 1 THEN DictSet(conf, f[1], v)
  ELSE DictSet(conf, f[1], DictSet(conf[f[1]], f[2], v))

\* the current choices C13 is about
C13Keys ==
  { "rate", "periodsize", "channels", "mu", "w", "filter_domain", "filter_algo",
    "main", "monitor", "input" }

\* C13: _pref_conf(K, v) writes v to K's own destination in confdict
\* (hw_params.K, filter_params.K, confdict[K] or devices.K) and to no other
\* field: confdict after the call is confdict before it with that one write.
C13_PrefConfWritesOwnDestination ==
  (capp.last.op = "_pref_conf" /\ capp.last.choice.s \in C13Keys)
    => capp.confdict = SetAt(capp.last.before, DestPath(capp.last.choice.s), capp.last.key)

\* the child of the label select_item was last called with
C14Child == capp.last.attributes.ch[capp.last.key.s]

\* C14: select_item called with a Branch label while the current choice is no
\* parameter leaf-key descends: confdict is not written, the choices become
\* the child's keys and current_choice becomes the label.
C14_SelectItemDescends ==
  ( /\ capp.last.op = "select_item"
    /\ capp.last.attributes.t = "dict"
    /\ capp.last.key.k = "str"
    /\ capp.last.key.s \in DOMAIN capp.last.attributes.ch
    /\ C14Child.t = "dict"
    /\ ~InStrs(capp.last.choice, LeafKeys) )
    => ( /\ capp.confdict = capp.last.before
         /\ capp.choices = KeyList(C14Child)
         /\ capp.objs[capp.ic].choices = KeyList(C14Child)
         /\ capp.current_choice = capp.last.key )

\* C15: a tune call whose blocks do not have exactly PeriodSize samples is
\* rejected with BlockSizeMismatch before the filter model is applied, and
\* leaves the filter weights unchanged.
C15_BlockSizeMismatchRejected ==
  (drv.last.op = "tune" /\ drv.last.n # PeriodSize)
    => ( /\ drv.error = "BlockSizeMismatch"
         /\ drv.applied = drv.last.applied
         /\ drv.filter_.w = drv.last.w )

\* every required filter field of the loaded settings is set
Complete(settings) == \A f \in FilterFields : settings[f] # PyNone

\* C16: constructing FilterDriver from settings in which a required filter
\* field (model, mu, w, lambda_) is not set fails with IncompleteConfiguration;
\* a driver exists only for Complete settings.
C16_IncompleteConfigurationRejected ==
  /\ drv.engine => Complete(drv.settings)
  /\ (drv.last.op = "FilterDriver" /\ ~Complete(drv.settings))
       => drv.error = "IncompleteConfiguration"

\* C17: get_filter_weights returns the weights left by the most recent tune
\* (by the constructor when none was made) and changes nothing: the filter,
\* its weights and the shape are as before the call.
C17_GetFilterWeightsReadsOnly ==
  (drv.last.op = "get_filter_weights")
    => ( /\ drv.last.returned = drv.tuned
         /\ drv.filter_.w = drv.last.w
         /\ drv.filter_.w = drv.tuned
         /\ drv.filter_.n = drv.shape
         /\ drv.error \in {"none", "TypeError"} )

\* weights read after two tunes, the last of which moved them off zero
C17_Witness ==
  /\ drv.last.op = "get_filter_weights"
  /\ drv.tunes = 2
  /\ drv.shape = 2
  /\ drv.last.returned # PyNone
  /\ drv.last.returned # Some(<<0, 0>>)
  /\ drv.last.returned = drv.filter_.w

\* the last call of dump_defaults
LastDump == cfg.log[Len(cfg.log)]

\* C18: no call of dump_defaults fails; with description=True it returns the
\* defaults with the __description__ entry, with description=False the
\* defaults without it.
C18_DumpDefaultsFlagControlsInclusion ==
  (cfg.log # <<>>)
    => ( /\ LastDump.error = "none"
         /\ LastDump.description => LastDump.result = ParamsJson
         /\ ~LastDump.description
              => LastDump.result = DictDel(ParamsJson, "__description__") )


\* C21: config.json is overwritten only by a yes to the write prompt, and then
\* holds confdict as of that moment; a no leaves config.json as it was, and
\* neither answer changes confdict, so a later yes writes what earlier rounds
\* left in memory.
C21_StoredWrittenOnlyOnYes ==
  [][ /\ (stored' # stored) => (pc = "ask_write" /\ want_to_write')
      /\ (pc = "ask_write" /\ pc' = "ask_continue" /\ want_to_write')
           => (stored' = confdict /\ confdict' = confdict)
      /\ (pc = "ask_write" /\ pc' = "ask_continue" /\ ~want_to_write')
           => (stored' = stored /\ confdict' = confdict) ]_vars

\* a yes in round 2 has written confdict, which holds the device resolved in
\* round 1 beside the device resolved in round 2
C21_Witness ==
  /\ pc = "ask_continue"
  /\ round = 2
  /\ want_to_write
  /\ stored = confdict
  /\ conf0 # DefaultConf
  /\ confdict # conf0
  /\ stored["devices"]["main"] # DefaultConf["devices"]["main"]
  /\ stored["devices"]["monitor"] # DefaultConf["devices"]["monitor"]

\* main has ended: it returned after a no, or an exception left it
Terminated == {"done", "crashed"}

\* C22: main terminates exactly when the continue prompt is answered no:
\* nothing else ends it, after a no no further round is run and nothing more
\* is written, and a yes re-initialises the navigator and starts exactly one
\* more round.
C22_TerminatesExactlyOnNo ==
  [][ /\ (pc \notin Terminated /\ pc' \in Terminated)
           => (pc = "ask_continue" /\ ~want_to_continue')
      /\ (pc = "ask_continue" /\ pc' # pc /\ ~want_to_continue')
           => (pc' = "done" /\ stored' = stored /\ round' = round)
      /\ (pc = "ask_continue" /\ pc' # pc /\ want_to_continue')
           => ( /\ pc' = "run"
                /\ round' = round + 1
                /\ attributes' = attr_header
                /\ control' = InquirerControl(root) )
      /\ (pc = "done") => (stored' = stored /\ round' = round /\ pc' = pc) ]_vars

\* Enter was pressed on a presented choice and the render that follows takes
\* no transition: answered stays set and nothing is selected
Stuck ==
  /\ pc = "run"
  /\ control.answered
  /\ choice_count(control) > 0
  /\ \A snddevs \in Inventories : get_prompt_tokens(Self, snddevs) = Self

\* C23: Enter on a presented choice is processed as a selection whatever the
\* literal value of the choice (0, 0.0 and "" included): the navigator is never
\* left with answered set and no transition to take.
C23_EnterAlwaysProcessed == ~Stuck

====
